---- MODULE Spec2Model ----
(***************************************************************************)
(* A model of the playback subscription subsystem of the Discord music     *)
(* bot: the mutex-guarded Queue (src/music/queue.js), the Track lifecycle  *)
(* and its retrying acquisition (src/music/track.js), the                  *)
(* MusicSubscription state machine (src/music/subscription.js) and the     *)
(* command handlers that drive them (src/unnamed/part_003).                *)
(*                                                                         *)
(* One guild is modelled.  Subscription 1 is the MusicSubscription whose   *)
(* state the variables hold; the registry value 2 stands for a newer       *)
(* MusicSubscription registered under the same guild id after 1 was        *)
(* removed.                                                                *)
(*                                                                         *)
(* JavaScript runs one synchronous block at a time; an async function      *)
(* is suspended only at an await.  Every action below is one such block:   *)
(* the code from one await (or event) to the next, with every call it      *)
(* makes, the synchronous part of the event handlers it triggers included. *)
(* A rejected async function ends that invocation only; the bot goes on.   *)
(***************************************************************************)
EXTENDS Integers, Sequences, FiniteSets, TLC

\* ------------------------------------------------------------------ bounds
\* Track objects (Track ids are 1..MaxTracks).
MaxTracks == 3
\* Command invocations in a behaviour, and those of them that create a Track.
MaxCmds == 2
MaxPlays == 2
\* Operations that may be suspended on the queue mutex when a command arrives.
MaxPending == 2
\* The history counters stop counting here.
Cap == 2
\* Tracks of a Spotify playlist.
MaxPlaylist == 2
\* MusicSubscription objects constructed for the guild in a behaviour.
MaxSubscriptions == 2
\* Pending waits of one kind (entersState, wait) of a listener; the count of
\* the audio player's waits saturates here.
MaxWaits == 1
\* Pending wait(5e3) calls of the voiceConnection listener.
MaxRejoinWaits == 2

\* ------------------------------------------------------------- constants
\* track.js: "if (this.currentReplayAttempt < 5)"
MaxReplayAttempts == 5
\* subscription.js: "else if (this.voiceConnection.rejoinAttempts < 5)"
MaxRejoinAttempts == 5

TrackIds == 1..MaxTracks
NoTrack == 0

Min(a, b) == IF a < b THEN a ELSE b
Bump(n) == Min(n + 1, Cap)

\* ------------------------------------------------------------------ Queue
\* An element of Queue.internal.  kind "track" is the Track object trk itself,
\* kind "array" is a one-element JavaScript Array holding the Track trk.
TrackItem(t) == [kind |-> "track", trk |-> t]
ArrayOf(item) == [kind |-> "array", trk |-> item.trk]

\* Array.prototype.splice(start, deleteCount, ...items) for an integer start:
\* the array afterwards, and the removed elements it returns.
SpliceArray(a, start, deleteCount, items) ==
    LET st == Min(start, Len(a))
        dc == Min(deleteCount, Len(a) - st)
    IN  SubSeq(a, 1, st) \o items \o SubSeq(a, st + dc + 1, Len(a))

SpliceRemoved(a, start, deleteCount) ==
    LET st == Min(start, Len(a))
        dc == Min(deleteCount, Len(a) - st)
    IN  SubSeq(a, st + 1, st + dc)

\* Queue.splice(start, deleteCount, ...items): the rest parameter `items` is the
\* sequence of the arguments after deleteCount.
splice(a, start, deleteCount, items) == SpliceArray(a, start, deleteCount, items)

\* Queue.enqueue(...items)
enqueue(a, items) == a \o items

\* Queue.enqueueFirst(item): this.splice(0, 0, [item]).  The single argument
\* after deleteCount is the Array [item], so that Array is what is inserted.
enqueueFirst(a, item) == splice(a, 0, 0, << ArrayOf(item) >>)

\* Faulty variant of dequeue: the first entry is read but stays in the array.
dequeueKeeps(a) == a

\* Queue.dequeue(): internal.shift()
dequeue(a) == Tail(a)

\* Queue.get(index), for an integer index inside the array
get(a, index) == a[index + 1]

\* Queue.remove(index): internal.splice(index, 1)
remove(a, index) == SpliceArray(a, index, 1, <<>>)

\* Queue.slice(start) and Queue.jump(index)
slice(a, start) == SubSeq(a, Min(start, Len(a)) + 1, Len(a))

\* Faulty variant of jump: the entry at index is dropped too.
jumpPast(a, index) == slice(a, index + 1)

jump(a, index) == slice(a, index)

\* Faulty variant of swap: no temporary value, index1 is overwritten first.
swapClobbers(a, index1, index2) ==
    [a EXCEPT ![index1 + 1] = a[index2 + 1], ![index2 + 1] = a[index2 + 1]]

\* Queue.swap(index1, index2), for integer indices inside the array
swap(a, index1, index2) ==
    [a EXCEPT ![index1 + 1] = a[index2 + 1], ![index2 + 1] = a[index1 + 1]]

\* Queue.clear()
clear(a) == <<>>

\* Faulty variant of shuffle: every position is filled with a drawn item, so
\* that an item may be taken twice.
shuffleRepeats(a, rs) == [i \in DOMAIN a |-> a[rs[i] + 1]]

\* Queue.shuffle(): the loop, with rs[k] the value of
\* Math.floor(Math.random() * currentIndex) when currentIndex = k.
RECURSIVE ShuffleFrom(_, _, _)
ShuffleFrom(a, currentIndex, rs) ==
    IF currentIndex > 0
    THEN ShuffleFrom(swap(a, currentIndex - 1, rs[currentIndex]), currentIndex - 1, rs)
    ELSE a

shuffle(a, rs) == ShuffleFrom(a, Len(a), rs)

\* The number of positions of a that hold item.
Count(a, item) == Cardinality({ i \in DOMAIN a : a[i] = item })

\* The random draws shuffle() can make on an array of length n.
ShuffleDraws(n) == { rs \in [1..n -> 0..(n - 1)] : \A k \in 1..n : rs[k] < k }

\* ------------------------------------------------------------------ state
VARIABLES
    internal,          \* Queue.internal
    holder,            \* the operation that holds queueAccessMutex
    waiters,           \* the operations suspended in queueAccessMutex.acquire()
    queueProcessLock,  \* MusicSubscription.queueProcessLock
    wait,              \* MusicSubscription.wait
    destroyed,         \* MusicSubscription.destroyed
    status,            \* audioPlayer.state.status
    resource,          \* the Track of audioPlayer.state.resource.metadata
    tracks,            \* the Track objects
    vcStatus,          \* voiceConnection.state.status
    subscriptions,     \* the registry entry of the guild: 0 none, 1, or 2 (newer)
    created,           \* the number of MusicSubscription objects constructed
    rejoinAttempts,    \* voiceConnection.rejoinAttempts
    readyLock,         \* MusicSubscription.readyLock
    timers,            \* the pending waits of the two stateChange listeners
    nextTrack,         \* the id the next created Track gets
    cmds,              \* command invocations so far
    plays,             \* those of them that created a Track
    hist               \* history of the behaviour (observations, no program state)

vars == << internal, holder, waiters, queueProcessLock, wait, destroyed, status,
           resource, tracks, vcStatus, subscriptions, created, rejoinAttempts,
           readyLock, timers, nextTrack, cmds, plays, hist >>

\* The state as one value, so that the calls one block makes compose.
S == [ internal |-> internal, holder |-> holder, waiters |-> waiters,
       queueProcessLock |-> queueProcessLock, wait |-> wait,
       destroyed |-> destroyed, status |-> status, resource |-> resource,
       tracks |-> tracks, vcStatus |-> vcStatus, subscriptions |-> subscriptions,
       created |-> created,
       rejoinAttempts |-> rejoinAttempts, readyLock |-> readyLock,
       timers |-> timers, nextTrack |-> nextTrack, cmds |-> cmds,
       plays |-> plays, hist |-> hist ]

Become(s) ==
    /\ internal' = s.internal
    /\ holder' = s.holder
    /\ waiters' = s.waiters
    /\ queueProcessLock' = s.queueProcessLock
    /\ wait' = s.wait
    /\ destroyed' = s.destroyed
    /\ status' = s.status
    /\ resource' = s.resource
    /\ tracks' = s.tracks
    /\ vcStatus' = s.vcStatus
    /\ subscriptions' = s.subscriptions
    /\ created' = s.created
    /\ rejoinAttempts' = s.rejoinAttempts
    /\ readyLock' = s.readyLock
    /\ timers' = s.timers
    /\ nextTrack' = s.nextTrack
    /\ cmds' = s.cmds
    /\ plays' = s.plays
    /\ hist' = s.hist

\* An index option of a command as Number(string.trim()) sees it: the option is
\* missing, is not a number (NaN), or is the number h/2 (h counts halves, so that
\* 1 is the index 0.5 and 2 is the index 1).
NoIndex == [kind |-> "missing", h |-> 0]
NaN == [kind |-> "nan", h |-> 0]
Num(h) == [kind |-> "num", h |-> h]
IsInteger(h) == h % 2 = 0
\* ToIntegerOrInfinity of a number h/2 >= 0, as splice and slice apply it.
Trunc(h) == h \div 2

\* An operation suspended on, or holding, the mutex: its kind and the Track it
\* carries.  (A command's index options are drawn when its handler reads them,
\* after the lock was granted: nothing depends on them before.)
Op(k, t) == [k |-> k, t |-> t, n |-> 0]
\* /play <spotify playlist>: the n Tracks t .. t + n - 1 made from the playlist.
PlaylistOp(t, n) == [k |-> "playlist", t |-> t, n |-> n]
NoOp == Op("none", NoTrack)
PQ == Op("processQueue", NoTrack)
STOP == Op("stop", NoTrack)
RETRY(t) == Op("spawnErrorHandler", t)

\* new Track(...): track.js constructor, and the fields createAudioResource adds.
NewTrack ==
    [ started |-> FALSE, finished |-> FALSE, errored |-> FALSE,
      currentReplayAttempt |-> 0,
      youtube_url |-> TRUE,  \* Track.fromSpotifyInfo leaves youtube_url unset
      source  |-> 0,         \* 0: the first youtube_url, i: alternate_youtube_videos[i - 1]
      search  |-> "none",    \* searchYoutube: pending, or what it returned
      promise |-> "none",    \* the Promise of createAudioResource
      process |-> "none",    \* the youtube-dl process
      probe   |-> "none",    \* demuxProbe in the 'spawn' listener
      handler |-> "none",    \* spawnErrorHandler's position
      awaiting |-> 0 ]       \* processQueue invocations awaiting the Promise

\* What a call of getOrCreateSubscription saw and returned: the registry entry
\* before the call, the connection joinVoiceChannel returned, the Subscription
\* returned, its voiceConnection and that connection's status.  Subscription i
\* was constructed with connection i.
NoneGot == [before |-> 0, joined |-> 0, sub |-> 0, conn |-> 0, connStatus |-> "none"]

\* A call of a Queue method: the array before it, its arguments and what it
\* returned (as a sequence: empty when nothing is returned).
NoCall == [op |-> "none", before |-> <<>>, args |-> <<>>, result |-> <<>>]

NewHist ==
    [ nStart   |-> [t \in TrackIds |-> 0],   \* "Now Playing" messages of onStart
      nFinish  |-> [t \in TrackIds |-> 0],   \* "Finished playing" messages
      nError   |-> [t \in TrackIds |-> 0],   \* "Ran into an error" messages
      nPlaying |-> [t \in TrackIds |-> 0],   \* times the player entered Playing with it
      nDequeue |-> [t \in TrackIds |-> 0],   \* times processQueue dequeued the Track
      nDequeueArray |-> [t \in TrackIds |-> 0], \* ... dequeued an Array holding it
      nAcquire |-> [t \in TrackIds |-> 0],   \* createAudioResource calls of processQueue
      nPlay    |-> [t \in TrackIds |-> 0],   \* audioPlayer.play calls of processQueue
      timedOut4014 |-> FALSE,  \* the 5 s wait after a 4014 disconnect timed out
      inactive |-> FALSE,      \* the "Left the channel ..." message was sent
      skipNotice |-> [t \in TrackIds |-> FALSE], \* "Could not find a Youtube URL ..."
      failed   |-> [t \in TrackIds |-> FALSE],   \* an acquisition of the Track failed
                                                 \* (premature close apart)
      got      |-> NoneGot,    \* the last call of getOrCreateSubscription
      call     |-> NoCall,     \* the last direct call of a Queue method
      exited   |-> FALSE,      \* the process has exited
      inserted |-> {},         \* the Tracks such calls inserted
      removed  |-> {},         \* the Tracks such calls removed
      nAbort   |-> 0,                        \* processQueue invocations that aborted
      unlocked |-> FALSE,   \* a queue mutation by an operation not holding the lock
      uncaught |-> FALSE,   \* a processQueue invocation ended in an uncaught error
      stops    |-> 0,       \* completed stop() invocations
      destroyError |-> FALSE ]  \* destroy() called on a Destroyed connection

\* The waits of the voiceConnection 'stateChange' listener that are pending:
\* entersState(Connecting, 5e3), wait(5e3) before rejoin(), and
\* entersState(Ready, 15e3).
NoTimers == [connecting |-> 0, rejoin |-> 0, ready |-> 0, playing |-> 0]

Init ==
    /\ internal = <<>>
    /\ holder = NoOp
    /\ waiters = <<>>
    /\ queueProcessLock = FALSE
    /\ wait = FALSE
    /\ destroyed = FALSE
    /\ status = "Idle"
    /\ resource = NoTrack
    /\ tracks = [t \in TrackIds |-> NewTrack]
    /\ vcStatus = "Ready"
    /\ subscriptions = 1
    /\ created = 1
    /\ rejoinAttempts = 0
    /\ readyLock = FALSE
    /\ timers = NoTimers
    /\ nextTrack = 1
    /\ cmds = 0
    /\ plays = 0
    /\ hist = NewHist


\* ------------------------------------------------------------------ mutex
\* Queue.acquireLock(): queueAccessMutex.acquire().  A free mutex is taken at the
\* call; otherwise the caller queues up, first come first served.
acquireLock(s, op) ==
    IF s.holder.k = "none"
    THEN [s EXCEPT !.holder = op]
    ELSE [s EXCEPT !.waiters = Append(@, op)]

\* The release handle acquireLock returned: the mutex goes to the first waiter.
unlockQueue(s) ==
    IF s.waiters = <<>>
    THEN [s EXCEPT !.holder = NoOp]
    ELSE [s EXCEPT !.holder = Head(s.waiters), !.waiters = Tail(s.waiters)]

\* Operation op assigns Queue.internal (history: whether op held the lock).
Mutate(s, op, a) ==
    [s EXCEPT !.internal = a, !.hist.unlocked = @ \/ (s.holder # op)]

\* ------------------------------------------------------------------ Track
\* Faulty variant of onStart: no started guard, the body runs at every call.
onStartUnguarded(s, t) ==
    [s EXCEPT !.tracks[t].started = TRUE, !.hist.nStart[t] = Bump(@)]

\* Track.onStart(): the body runs once, then sends "Now Playing".
onStart(s, t) ==
    IF s.tracks[t].started
    THEN s
    ELSE [s EXCEPT !.tracks[t].started = TRUE, !.hist.nStart[t] = Bump(@)]

\* Track.onFinish(): the body runs once, then sends "Finished playing".
onFinish(s, t) ==
    IF s.tracks[t].finished
    THEN s
    ELSE [s EXCEPT !.tracks[t].finished = TRUE, !.hist.nFinish[t] = Bump(@)]

\* Track.onError(error): the body runs once, then sends "Ran into an error".
onError(s, t) ==
    IF s.tracks[t].errored
    THEN s
    ELSE [s EXCEPT !.tracks[t].errored = TRUE, !.hist.nError[t] = Bump(@)]

\* Track.createAudioResource() up to the return of the Promise: the flags are
\* reset; with a youtube_url the youtube-dl process is started, without one
\* searchYoutube is called.
createAudioResource(s, t) ==
    IF s.tracks[t].youtube_url
    THEN [s EXCEPT !.tracks[t].finished = FALSE,
                   !.tracks[t].started = FALSE,
                   !.tracks[t].promise = "pending",
                   !.tracks[t].process = "running",
                   !.tracks[t].probe = "pending",
                   !.tracks[t].handler = "none"]
    ELSE [s EXCEPT !.tracks[t].finished = FALSE,
                   !.tracks[t].started = FALSE,
                   !.tracks[t].promise = "pending",
                   !.tracks[t].search = "pending"]

\* resolve(...) and reject(...) of that Promise: the first to settle it wins.
resolve(s, t) ==
    IF s.tracks[t].promise = "pending" THEN [s EXCEPT !.tracks[t].promise = "resolved"] ELSE s

reject(s, t) ==
    IF s.tracks[t].promise = "pending" THEN [s EXCEPT !.tracks[t].promise = "rejected"] ELSE s

\* ----------------------------------------------------- MusicSubscription
\* processQueue() up to its await of the lock.
processQueue(s) == acquireLock([s EXCEPT !.wait = FALSE], PQ)

\* The audioPlayer 'stateChange' listener, up to its first await: on Idle it
\* ends in entersState(audioPlayer, Playing, 30_000).
playerStateChange(s, oldStatus, oldResource, newStatus, newResource) ==
    IF newStatus = "Idle" /\ oldStatus # "Idle"
    THEN LET s1 == onFinish(s, oldResource)   \* downloadFailed is never assigned
             s2 == IF ~s1.wait THEN processQueue(s1) ELSE s1
         IN  [s2 EXCEPT !.timers.playing = Min(@ + 1, MaxWaits)]
    ELSE IF newStatus = "Playing"
         THEN onStart([s EXCEPT !.hist.nPlaying[newResource] = Bump(@)], newResource)
         ELSE s

\* The AudioPlayer sets its state and emits 'stateChange' to the listener; the
\* pending entersState(audioPlayer, Playing, 30_000) waits resolve on Playing.
setPlayerState(s, newStatus, newResource) ==
    LET s1 == [s EXCEPT !.status = newStatus, !.resource = newResource,
                        !.timers.playing = IF newStatus = "Playing" THEN 0 ELSE @]
    IN  playerStateChange(s1, s.status, s.resource, newStatus, newResource)

\* audioPlayer.play(resource)
play(s, t) == setPlayerState(s, "Buffering", t)

\* audioPlayer.stop(true): an Idle player stays as it is.
stopPlayer(s) == IF s.status = "Idle" THEN s ELSE setPlayerState(s, "Idle", NoTrack)

\* MusicSubscription.skip()
skip(s) == stopPlayer(s)

\* audioPlayer.pause(): only a Playing player is paused.
pause(s) == IF s.status = "Playing" THEN setPlayerState(s, "Paused", s.resource) ELSE s

\* MusicSubscription.nowPlaying(): audioPlayer.state.resource.metadata.  An Idle
\* player's state has no resource, and reading .metadata of undefined throws.
TypeError == [kind |-> "TypeError", trk |-> NoTrack]
nowPlaying(s) == IF s.resource = NoTrack THEN << TypeError >> ELSE << TrackItem(s.resource) >>

\* Faulty variant of stop: the queue is cleared before the lock is awaited.
stopBeforeLock(s) == acquireLock(Mutate(s, STOP, clear(s.internal)), STOP)

\* stop() up to its await of the lock.
stop(s) == acquireLock(s, STOP)

\* The voiceConnection 'stateChange' listener on Destroyed.
connectionDestroyed(s) == stop(s)

\* voiceConnection.destroy(): it throws on a Destroyed connection.
destroy(s) ==
    IF s.vcStatus = "Destroyed"
    THEN [s EXCEPT !.hist.destroyError = TRUE]
    ELSE connectionDestroyed([s EXCEPT !.vcStatus = "Destroyed"])

\* Faulty variant of connectionStateChange: readyLock is not tested, every entry
\* into Connecting or Signalling arms a wait for Ready.
connectionStateChangeUnlocked(s, newStatus, closed4014) ==
    CASE newStatus = "Disconnected" ->
            IF closed4014
            THEN [s EXCEPT !.timers.connecting = @ + 1]
            ELSE IF s.rejoinAttempts < MaxRejoinAttempts
                 THEN [s EXCEPT !.timers.rejoin = @ + 1]
                 ELSE destroy(s)
      [] newStatus \in {"Connecting", "Signalling"} ->
            [s EXCEPT !.readyLock = TRUE, !.timers.ready = @ + 1]
      [] OTHER -> s

\* The voiceConnection 'stateChange' listener, up to its first await, for a new
\* status other than Destroyed; closed4014 says that a Disconnected state has
\* the reason WebSocketClose with closeCode 4014.
connectionStateChange(s, newStatus, closed4014) ==
    CASE newStatus = "Disconnected" ->
            IF closed4014
            THEN [s EXCEPT !.timers.connecting = @ + 1]
            ELSE IF s.rejoinAttempts < MaxRejoinAttempts
                 THEN [s EXCEPT !.timers.rejoin = @ + 1]
                 ELSE destroy(s)
      [] newStatus \in {"Connecting", "Signalling"} /\ ~s.readyLock ->
            [s EXCEPT !.readyLock = TRUE, !.timers.ready = @ + 1]
      [] OTHER -> s

\* The VoiceConnection sets its state: Ready resets rejoinAttempts; the listener
\* runs; the pending entersState waits for the new status resolve (the one for
\* Ready then runs its finally block).
setConnectionState(s, newStatus, closed4014) ==
    LET s1 == [s EXCEPT !.vcStatus = newStatus,
                        !.rejoinAttempts = IF newStatus = "Ready" THEN 0 ELSE @]
        s2 == connectionStateChange(s1, newStatus, closed4014)
    IN  CASE newStatus = "Connecting" -> [s2 EXCEPT !.timers.connecting = 0]
          [] newStatus = "Ready" /\ s2.timers.ready > 0 ->
                [s2 EXCEPT !.timers.ready = 0, !.readyLock = FALSE]
          [] OTHER -> s2

\* voiceConnection.rejoin(): false on a Destroyed connection; otherwise the
\* join payload is sent again, and a connection that is not Ready counts the
\* attempt and goes back to Signalling.
rejoin(s) ==
    IF s.vcStatus = "Destroyed"
    THEN s
    ELSE IF s.vcStatus # "Ready"
         THEN setConnectionState([s EXCEPT !.rejoinAttempts = @ + 1], "Signalling", FALSE)
         ELSE s

\* joinVoiceChannel(...) of @discordjs/voice: the guild's tracked connection, if
\* it is not Destroyed, is used again (rejoin() when it is Disconnected);
\* otherwise a new connection is created.  Connection 1 is the one
\* Subscription 1 was constructed with; 2 stands for a newer one.
joinVoiceChannel(s) == IF s.vcStatus = "Disconnected" THEN rejoin(s) ELSE s

joined(s) == IF s.vcStatus # "Destroyed" THEN 1 ELSE 2

\* Faulty variant of getOrCreateSubscription: a new MusicSubscription is
\* constructed and registered whether or not one is registered.
getOrCreateAlways(s) ==
    LET s1 == joinVoiceChannel(s)
        new == s1.created + 1
    IN  [s1 EXCEPT !.created = new, !.subscriptions = new,
                   !.hist.got = [before |-> s.subscriptions, joined |-> joined(s),
                                 sub |-> new, conn |-> joined(s),
                                 connStatus |-> "Signalling"]]

\* getOrCreateSubscription(voiceChannel, textChannel)
getOrCreateSubscription(s) ==
    LET s1 == joinVoiceChannel(s)
        new == s1.created + 1
    IN  IF s1.subscriptions # 0
        THEN [s1 EXCEPT !.hist.got =
                 [before |-> s.subscriptions, joined |-> joined(s),
                  sub |-> s1.subscriptions, conn |-> s1.subscriptions,
                  connStatus |-> IF s1.subscriptions = 1 THEN s1.vcStatus ELSE "Ready"]]
        ELSE [s1 EXCEPT !.created = new, !.subscriptions = new,
                        !.hist.got = [before |-> 0, joined |-> joined(s),
                                      sub |-> new, conn |-> joined(s),
                                      connStatus |-> "Signalling"]]

\* entersState(voiceConnection, Connecting, 5e3) timed out: the catch block.
connectingTimedOut(s) ==
    destroy([s EXCEPT !.timers.connecting = @ - 1, !.hist.timedOut4014 = TRUE])

\* wait(5e3) is over: rejoin().
rejoinWaitOver(s) == rejoin([s EXCEPT !.timers.rejoin = @ - 1])

\* entersState(voiceConnection, Ready, 15e3) timed out: catch and finally.
readyTimedOut(s) ==
    LET s1 == [s EXCEPT !.timers.ready = @ - 1]
        s2 == IF s1.vcStatus # "Destroyed" THEN destroy(s1) ELSE s1
    IN  [s2 EXCEPT !.readyLock = FALSE]

\* Faulty variant of playingTimedOut: the timeout is swallowed.
playingTimedOutSilent(s, left) == [s EXCEPT !.timers.playing = left]

\* entersState(audioPlayer, Playing, 30_000) timed out: the catch block.  left
\* is the number of such waits still pending.
playingTimedOut(s, left) ==
    LET s1 == [s EXCEPT !.timers.playing = left, !.hist.inactive = TRUE]
    IN  IF s1.vcStatus # "Destroyed" THEN destroy(s1) ELSE s1

\* Faulty variant of stopLocked: destroy() is called whatever the status is,
\* and the exception it throws on a Destroyed connection ends stop().
stopLockedUnguarded(s) ==
    LET s1 == Mutate(s, STOP, clear(s.internal))
        s2 == unlockQueue(s1)
        s3 == stopPlayer(s2)
        s4 == [s3 EXCEPT !.destroyed = TRUE]
    IN  IF s4.vcStatus = "Destroyed"
        THEN [destroy(s4) EXCEPT !.hist.stops = Bump(@)]
        ELSE [destroy(s4) EXCEPT !.subscriptions = 0, !.hist.stops = Bump(@)]

\* stop() after the lock was granted.
stopLocked(s) ==
    LET s1 == Mutate(s, STOP, clear(s.internal))
        s2 == unlockQueue(s1)
        s3 == stopPlayer(s2)
        s4 == [s3 EXCEPT !.destroyed = TRUE]
        s5 == IF s4.vcStatus # "Destroyed" THEN destroy(s4) ELSE s4
    IN  [s5 EXCEPT !.subscriptions = 0, !.hist.stops = Bump(@)]

\* Faulty variant of processQueueLocked: the player's status is not tested.
processQueueLockedBusy(s) ==
    IF s.queueProcessLock \/ Len(s.internal) = 0
    THEN unlockQueue([s EXCEPT !.hist.nAbort = Bump(@)])
    ELSE LET nextItem == get(s.internal, 0)
             t == nextItem.trk
             s1 == [s EXCEPT !.queueProcessLock = TRUE]
             s2 == Mutate(s1, PQ, dequeue(s1.internal))
             s3 == unlockQueue(s2)
         IN  IF nextItem.kind = "track"
             THEN [createAudioResource(s3, t) EXCEPT
                       !.tracks[t].awaiting = @ + 1,
                       !.hist.nDequeue[t] = Bump(@),
                       !.hist.nAcquire[t] = Bump(@)]
             ELSE [s3 EXCEPT !.hist.nDequeueArray[t] = Bump(@),
                             !.hist.uncaught = TRUE]

\* processQueue() after the lock was granted, up to its await of the Promise.
processQueueLocked(s) ==
    IF s.queueProcessLock \/ s.status # "Idle" \/ Len(s.internal) = 0
    THEN unlockQueue([s EXCEPT !.hist.nAbort = Bump(@)])
    ELSE LET nextItem == get(s.internal, 0)
             t == nextItem.trk
             s1 == [s EXCEPT !.queueProcessLock = TRUE]
             s2 == Mutate(s1, PQ, dequeue(s1.internal))
             s3 == unlockQueue(s2)
         IN  IF nextItem.kind = "track"
             THEN [createAudioResource(s3, t) EXCEPT
                       !.tracks[t].awaiting = @ + 1,
                       !.hist.nDequeue[t] = Bump(@),
                       !.hist.nAcquire[t] = Bump(@)]
             \* An Array has no createAudioResource: TypeError; the catch block
             \* calls nextTrack.onError, a TypeError again, which ends the
             \* invocation with queueProcessLock still true.
             ELSE [s3 EXCEPT !.hist.nDequeueArray[t] = Bump(@),
                             !.hist.uncaught = TRUE]

\* processQueue() after the Promise resolved.
processQueueThen(s, t) ==
    LET s1 == play(s, t)
    IN  [s1 EXCEPT !.queueProcessLock = FALSE, !.tracks[t].awaiting = @ - 1,
                   !.hist.nPlay[t] = Bump(@)]

\* processQueue() after the Promise rejected: the catch block.
processQueueCatch(s, t) ==
    LET s1 == onError(s, t)
        s2 == [s1 EXCEPT !.queueProcessLock = FALSE, !.tracks[t].awaiting = @ - 1]
    IN  processQueue(s2)

\* The .then callback of searchYoutube(...) in createAudioResource.  The search
\* returned null ("null"), a list without entries ("empty": there were raw
\* results, none of them with duration, url and title), or candidates ("found").
\* On an empty list searchResults[0].youtube_url throws a TypeError inside the
\* callback, and the Promise of createAudioResource is never settled.
searchReturned(s, t, results) ==
    LET s1 == [s EXCEPT !.tracks[t].search = results]
    IN  CASE results = "null" ->
                reject([s1 EXCEPT !.hist.skipNotice[t] = TRUE, !.hist.failed[t] = TRUE], t)
          [] results = "empty" -> [s1 EXCEPT !.hist.failed[t] = TRUE]
          [] OTHER -> createAudioResource([s1 EXCEPT !.tracks[t].youtube_url = TRUE], t)

\* ------------------------------------------------------ spawnErrorHandler
\* Faulty variant of spawnErrorHandler: a premature close is counted and retried
\* like "exit code 1".
spawnErrorHandlerCounts(s, t, error) ==
    [s EXCEPT !.tracks[t].process = "failed",
              !.hist.failed[t] = TRUE,
              !.tracks[t].started = TRUE,
              !.tracks[t].finished = TRUE,
              !.tracks[t].currentReplayAttempt = @ + 1,
              !.wait = TRUE,
              !.tracks[t].handler = "send"]

\* The handler up to its first await, for an error whose shortMessage is
\* ERR_STREAM_PREMATURE_CLOSE ("premature"), holds "exit code 1" ("exit1") or
\* neither ("other").
spawnErrorHandler(s, t, error) ==
    LET s0 == [s EXCEPT !.tracks[t].process = "failed"]
    IN  CASE error = "premature" -> [s0 EXCEPT !.tracks[t].handler = "done"]
          [] error = "exit1" ->
                LET s1 == [s0 EXCEPT !.hist.failed[t] = TRUE,
                                     !.tracks[t].started = TRUE,
                                     !.tracks[t].finished = TRUE,
                                     !.tracks[t].currentReplayAttempt = @ + 1]
                IN  IF s1.tracks[t].currentReplayAttempt < MaxReplayAttempts
                    THEN [s1 EXCEPT !.wait = TRUE, !.tracks[t].handler = "send"]
                    ELSE [s1 EXCEPT !.tracks[t].handler = "send"]
          [] OTHER -> [reject(s0, t) EXCEPT !.tracks[t].handler = "done",
                                            !.hist.failed[t] = TRUE]

\* The source of the next attempt: from the second failure on,
\* alternate_youtube_videos[currentReplayAttempt - 2] when there is one
\* (alternateVideo), else the source as it is.
nextSource(track, alternateVideo) ==
    IF track.currentReplayAttempt >= 2 /\ alternateVideo
    THEN track.currentReplayAttempt - 1
    ELSE track.source

\* The handler after lastTextChannel.send(...) resolved.
spawnErrorHandlerSent(s, t, alternateVideo) ==
    IF s.tracks[t].currentReplayAttempt < MaxReplayAttempts
    THEN [acquireLock(s, RETRY(t)) EXCEPT
              !.tracks[t].handler = "lock",
              !.tracks[t].source = nextSource(s.tracks[t], alternateVideo)]
    ELSE [reject(skip(s), t) EXCEPT !.tracks[t].handler = "done"]

\* The handler when lastTextChannel.send(...) rejected: the await throws, the
\* async handler ends there and nothing after the await runs.
spawnErrorHandlerSendRejected(s, t) == [s EXCEPT !.tracks[t].handler = "done"]

\* The handler after the lock was granted.
spawnErrorHandlerLocked(s, t) ==
    LET s1 == Mutate(s, RETRY(t), enqueueFirst(s.internal, TrackItem(t)))
        s2 == processQueue(unlockQueue(s1))
    IN  [reject(s2, t) EXCEPT !.tracks[t].handler = "done"]


\* --------------------------------------------------------------- commands
\* interaction.unlockQueueReply(msg): unlockQueue(), then the reply.
unlockQueueReply(s) == unlockQueue(s)

\* commands.play.enqueueYoutubeTrack after the lock was granted; op.k is the
\* command: "play" (end of the queue), "next" (beginningOfQueue) or "now".
enqueueYoutubeTrackLocked(s, op) ==
    IF op.k \in {"next", "now"}
    THEN LET s1 == Mutate(s, op, enqueueFirst(s.internal, TrackItem(op.t)))
             s2 == unlockQueue(s1)
             s3 == IF op.k = "now" THEN skip(s2) ELSE s2
         IN  processQueue(s3)
    ELSE LET s1 == Mutate(s, op, enqueue(s.internal, << TrackItem(op.t) >>))
         IN  processQueue(unlockQueue(s1))

\* commands.play.execute for a Spotify playlist after the lock was granted: the
\* Tracks are enqueued and the whole queue is shuffled, with the draws rs.
enqueuePlaylistLocked(s, op, rs) ==
    LET items == [i \in 1..op.n |-> TrackItem(op.t + i - 1)]
        s1 == Mutate(s, op, enqueue(s.internal, items))
        s2 == Mutate(s1, op, shuffle(s1.internal, rs))
    IN  processQueue(unlockQueue(s2))

\* commands.shuffle.execute after the lock was granted, for the draws rs.
shuffleLocked(s, op, rs) == unlockQueueReply(Mutate(s, op, shuffle(s.internal, rs)))

\* commands.clear.execute after the lock was granted.
clearLocked(s, op) == unlockQueueReply(Mutate(s, op, clear(s.internal)))

\* commands.queue.execute after the lock was granted: every path replies
\* through unlockQueueReply and the queue is only read.
queueLocked(s, op) == unlockQueueReply(s)

\* commands.swap.execute after the lock was granted (index2 defaults to 0).
swapLocked(s, op, i, j) ==
    LET length == Len(s.internal)
        index1 == i
        index2 == IF j.kind = "missing" THEN Num(0) ELSE j
    IN  IF \/ length < 2
           \/ index1.kind # "num"
           \/ index2.kind # "num"
           \/ index1.h >= 2 * length
           \/ index2.h >= 2 * length
           \/ index1.h < 0
           \/ index2.h < 0
           \/ index1.h = index2.h
        THEN unlockQueueReply(s)
        ELSE unlockQueueReply(
                 Mutate(s, op, swap(s.internal, Trunc(index1.h), Trunc(index2.h))))

\* Faulty variant of replaceLocked: the removed Track is put back wrapped in an
\* Array.
replaceLockedWraps(s, op, index) ==
    LET length == Len(s.internal)
    IN  IF index.kind # "num" \/ index.h <= 0 \/ index.h >= 2 * length
        THEN unlockQueueReply(s)
        ELSE LET removed == SpliceRemoved(s.internal, Trunc(index.h), 1)
                 a1 == splice(s.internal, Trunc(index.h), 1, <<>>)
                 a2 == splice(a1, 0, 0, << ArrayOf(removed[1]) >>)
                 s1 == unlockQueue(Mutate(s, op, a2))
             IN  IF IsInteger(index.h) THEN skip(s1) ELSE s1

\* commands.replace.execute after the lock was granted.  A fractional index
\* passes the checks, get(index) is undefined, splice truncates the index, and
\* the reply's trackAtIndex.youtube_title throws after unlockQueue(), before
\* skip().
replaceLocked(s, op, index) ==
    LET length == Len(s.internal)
    IN  IF index.kind # "num" \/ index.h <= 0 \/ index.h >= 2 * length
        THEN unlockQueueReply(s)
        ELSE LET removed == SpliceRemoved(s.internal, Trunc(index.h), 1)
                 a1 == splice(s.internal, Trunc(index.h), 1, <<>>)
                 a2 == splice(a1, 0, 0, << removed[1] >>)
                 s1 == unlockQueue(Mutate(s, op, a2))
             IN  IF IsInteger(index.h) THEN skip(s1) ELSE s1

\* commands.jump.execute after the lock was granted.
jumpLocked(s, op, index) ==
    LET length == Len(s.internal)
    IN  IF index.kind # "num" \/ index.h <= 0 \/ index.h >= 2 * length
        THEN unlockQueueReply(s)
        ELSE skip(unlockQueue(Mutate(s, op, jump(s.internal, Trunc(index.h)))))

\* commands.remove.execute after the lock was granted.  A fractional index
\* passes the checks, get(index) is undefined and trackAtIndex.youtube_title
\* throws: the handler ends without calling unlockQueue.
removeLocked(s, op, index) ==
    LET length == Len(s.internal)
    IN  IF index.kind # "num" \/ index.h < 0 \/ index.h >= 2 * length
        THEN unlockQueueReply(s)
        ELSE IF IsInteger(index.h)
             THEN unlockQueue(Mutate(s, op, remove(s.internal, Trunc(index.h))))
             ELSE [s EXCEPT !.holder.k = "ended"]

\* The index options the commands are tried with.
IndexInputs == {NoIndex, NaN} \cup { Num(h) : h \in (0 - 1)..(2 * MaxTracks) }
IntegerInputs == {NoIndex, NaN} \cup { Num(2 * k) : k \in (0 - 1)..MaxTracks }

\* ---------------------------------------------------------------- actions
\* A command arrives for the registered subscription.
CommandArrives ==
    /\ subscriptions = 1
    /\ cmds < MaxCmds

LockCommandArrives ==
    /\ CommandArrives
    /\ Len(waiters) < MaxPending

Counted(s) == [s EXCEPT !.cmds = @ + 1]

\* /play, /next, /now <song>: the handler reaches enqueueYoutubeTrack's
\* acquireLock with a new Track.
Play ==
    /\ LockCommandArrives
    /\ nextTrack \in TrackIds
    /\ plays < MaxPlays
    /\ \E k \in {"play", "next", "now"} :
          Become(acquireLock([Counted(S) EXCEPT !.nextTrack = @ + 1, !.plays = @ + 1],
                             Op(k, nextTrack)))

PlayLocked ==
    /\ holder.k \in {"play", "next", "now"}
    /\ Become(enqueueYoutubeTrackLocked(S, holder))

\* /play <spotify playlist url>: the handler reaches acquireLock with the
\* Tracks that Track.fromSpotifyInfo made.
PlayPlaylist ==
    /\ LockCommandArrives
    /\ plays < MaxPlays
    /\ \E n \in 1..MaxPlaylist :
          /\ nextTrack + n - 1 \in TrackIds
          /\ Become(acquireLock(
                 [Counted(S) EXCEPT
                     !.nextTrack = @ + n, !.plays = @ + 1,
                     !.tracks = [t \in TrackIds |->
                                    IF t \in nextTrack .. (nextTrack + n - 1)
                                    THEN [NewTrack EXCEPT !.youtube_url = FALSE]
                                    ELSE @[t]]],
                 PlaylistOp(nextTrack, n)))

PlayPlaylistLocked ==
    /\ holder.k = "playlist"
    /\ \E rs \in ShuffleDraws(Len(internal) + holder.n) :
          Become(enqueuePlaylistLocked(S, holder, rs))

\* searchYoutube(...) returns to createAudioResource.
SearchReturns ==
    \E t \in TrackIds, results \in {"null", "empty", "found"} :
        /\ tracks[t].search = "pending"
        /\ Become(searchReturned(S, t, results))

\* /shuffle, /clear, /queue
Shuffle ==
    /\ LockCommandArrives
    /\ Become(acquireLock(Counted(S), Op("shuffle", NoTrack)))

ShuffleLocked ==
    /\ holder.k = "shuffle"
    /\ \E rs \in ShuffleDraws(Len(internal)) : Become(shuffleLocked(S, holder, rs))

Clear ==
    /\ LockCommandArrives
    /\ Become(acquireLock(Counted(S), Op("clear", NoTrack)))

ClearLocked ==
    /\ holder.k = "clear"
    /\ Become(clearLocked(S, holder))

QueueCommand ==
    /\ LockCommandArrives
    /\ Become(acquireLock(Counted(S), Op("queue", NoTrack)))

QueueLocked ==
    /\ holder.k = "queue"
    /\ Become(queueLocked(S, holder))

\* /swap index1 [index2]
Swap ==
    /\ LockCommandArrives
    /\ Become(acquireLock(Counted(S), Op("swap", NoTrack)))

SwapLocked ==
    /\ holder.k = "swap"
    /\ \E i \in IntegerInputs, j \in IntegerInputs : Become(swapLocked(S, holder, i, j))

\* /replace index, /jump index, /remove index
Replace ==
    /\ LockCommandArrives
    /\ Become(acquireLock(Counted(S), Op("replace", NoTrack)))

ReplaceLockedWith(i) ==
    /\ holder.k = "replace"
    /\ Become(replaceLocked(S, holder, i))

ReplaceLocked == \E i \in IndexInputs : ReplaceLockedWith(i)

Jump ==
    /\ LockCommandArrives
    /\ Become(acquireLock(Counted(S), Op("jump", NoTrack)))

JumpLocked ==
    /\ holder.k = "jump"
    /\ \E i \in IndexInputs : Become(jumpLocked(S, holder, i))

Remove ==
    /\ LockCommandArrives
    /\ Become(acquireLock(Counted(S), Op("remove", NoTrack)))

RemoveLocked ==
    /\ holder.k = "remove"
    /\ \E i \in IndexInputs : Become(removeLocked(S, holder, i))

\* /skip: refused while Idle or Buffering.
Skip ==
    /\ CommandArrives
    /\ status \notin {"Idle", "Buffering"}
    /\ Become(skip(Counted(S)))

\* /pause: audioPlayer.pause() pauses a Playing player.
Pause ==
    /\ CommandArrives
    /\ status = "Playing"
    /\ Become(setPlayerState(Counted(S), "Paused", resource))

\* /play without a song while the player is Paused: the branch calls
\* audioPlayer.pause() and replies "Unpaused".
PlayUnpause ==
    /\ CommandArrives
    /\ status = "Paused"
    /\ Become(pause(Counted(S)))

\* nowPlaying() is called on the Subscription as it is.
CallNowPlaying ==
    /\ subscriptions = 1
    /\ Become([S EXCEPT !.hist.call = [op |-> "nowPlaying", before |-> <<>>,
                                       args |-> <<>>, result |-> nowPlaying(S)]])

\* SIGTERM.  The handler's forEach callback sends a message and calls
\* subscription.terminate(), which MusicSubscription does not define; the
\* handler does not wait for the callbacks and calls process.exit(0).  Nothing
\* of any Subscription is touched before the process exits.
Sigterm ==
    /\ ~hist.exited
    /\ Become([S EXCEPT !.hist.exited = TRUE])

\* /play, /next, /now <song>, up to the return of getOrCreateSubscription.
GetOrCreateSubscription ==
    /\ cmds < MaxCmds
    /\ created < MaxSubscriptions
    /\ Become(getOrCreateSubscription(Counted(S)))

\* /stop
StopCommand ==
    /\ CommandArrives
    /\ Become(stop(Counted(S)))

StopLocked ==
    /\ holder = STOP
    /\ Become(stopLocked(S))

\* processQueue: the lock is granted; the Promise settles.
ProcessQueueLocked ==
    /\ holder = PQ
    /\ Become(processQueueLocked(S))

ProcessQueueThen ==
    \E t \in TrackIds :
        /\ tracks[t].awaiting > 0
        /\ tracks[t].promise = "resolved"
        /\ Become(processQueueThen(S, t))

ProcessQueueCatch ==
    \E t \in TrackIds :
        /\ tracks[t].awaiting > 0
        /\ tracks[t].promise = "rejected"
        /\ Become(processQueueCatch(S, t))

\* The 'spawn' listener: demuxProbe resolves or rejects.
ProbeResolves ==
    \E t \in TrackIds :
        /\ tracks[t].probe = "pending"
        /\ tracks[t].promise = "pending"
        /\ Become([resolve(S, t) EXCEPT !.tracks[t].probe = "done"])

ProbeRejects ==
    \E t \in TrackIds :
        /\ tracks[t].probe = "pending"
        /\ tracks[t].promise = "pending"
        /\ Become([reject(S, t) EXCEPT !.tracks[t].probe = "done",
                                        !.hist.failed[t] = TRUE])

\* The youtube-dl process fails: its promise rejects into spawnErrorHandler.
\* With an error of the third kind the process may never have spawned, and
\* then no probe follows.
ProcessFailsWith(error) ==
    \E t \in TrackIds :
        /\ tracks[t].process = "running"
        /\ Become(LET s1 == spawnErrorHandler(S, t, error)
                  IN  IF error = "other" THEN [s1 EXCEPT !.tracks[t].probe = "none"] ELSE s1)

ProcessFails == \E error \in {"premature", "exit1", "other"} : ProcessFailsWith(error)

SendResolves ==
    \E t \in TrackIds, alternateVideo \in BOOLEAN :
        /\ tracks[t].handler = "send"
        /\ Become(spawnErrorHandlerSent(S, t, alternateVideo))

SendRejects ==
    \E t \in TrackIds :
        /\ tracks[t].handler = "send"
        /\ Become(spawnErrorHandlerSendRejected(S, t))

SpawnErrorHandlerLocked ==
    /\ holder.k = "spawnErrorHandler"
    /\ Become(spawnErrorHandlerLocked(S, holder.t))

\* The audio player's own transitions.
PlayerReadable ==
    /\ status = "Buffering"
    /\ Become(setPlayerState(S, "Playing", resource))

PlayerEnds ==
    /\ status \in {"Buffering", "Playing"}
    /\ Become(setPlayerState(S, "Idle", NoTrack))

PlayerAutoPauses ==
    /\ status = "Playing"
    /\ Become(setPlayerState(S, "AutoPaused", resource))

PlayerResumes ==
    /\ status = "AutoPaused"
    /\ Become(setPlayerState(S, "Playing", resource))

\* The resource's stream errors: the 'error' listener, then Idle.
PlayerError ==
    /\ status \in {"Buffering", "Playing"}
    /\ Become(setPlayerState(onError(S, resource), "Idle", NoTrack))

\* No Track started playing for 30 s after the player went Idle.  A saturated
\* count may stand for further pending waits.
PlayingTimedOut ==
    /\ timers.playing > 0
    /\ \E left \in {timers.playing - 1} \cup (IF timers.playing = MaxWaits THEN {MaxWaits} ELSE {}) :
          Become(playingTimedOut(S, left))

\* The voice connection's own transitions.
ConnectionSignalled ==
    /\ vcStatus = "Signalling"
    /\ Become(setConnectionState(S, "Connecting", FALSE))

ConnectionReady ==
    /\ vcStatus = "Connecting"
    /\ Become(setConnectionState(S, "Ready", FALSE))

ConnectionDrops ==
    /\ vcStatus \in {"Signalling", "Connecting", "Ready"}
    /\ \E closed4014 \in BOOLEAN :
          /\ IF closed4014 THEN timers.connecting < MaxWaits
                           ELSE timers.rejoin < MaxRejoinWaits
          /\ Become(setConnectionState(S, "Disconnected", closed4014))

\* A Disconnected connection is taken up again without rejoin() (the bot was
\* moved to another channel).
ConnectionReturns ==
    /\ vcStatus = "Disconnected"
    /\ Become(setConnectionState(S, "Connecting", FALSE))

\* The connection is destroyed from outside the subscription.
ConnectionDestroyed ==
    /\ vcStatus # "Destroyed"
    /\ Become(destroy(S))

\* The waits of the voiceConnection listener end.
ConnectingTimedOut ==
    /\ timers.connecting > 0
    /\ Become(connectingTimedOut(S))

RejoinWaitOver ==
    /\ timers.rejoin > 0
    /\ Become(rejoinWaitOver(S))

ReadyTimedOut ==
    /\ timers.ready > 0
    /\ Become(readyTimedOut(S))

Next ==
    \/ Play \/ PlayLocked
    \/ Shuffle \/ ShuffleLocked
    \/ Clear \/ ClearLocked
    \/ QueueCommand \/ QueueLocked
    \/ Swap \/ SwapLocked
    \/ Replace \/ ReplaceLocked
    \/ Jump \/ JumpLocked
    \/ Remove \/ RemoveLocked
    \/ Skip \/ Pause
    \/ StopCommand \/ StopLocked
    \/ ProcessQueueLocked \/ ProcessQueueThen \/ ProcessQueueCatch
    \/ ProbeResolves \/ ProbeRejects \/ ProcessFails
    \/ SendResolves \/ SpawnErrorHandlerLocked
    \/ PlayerReadable \/ PlayerEnds \/ PlayerAutoPauses \/ PlayerResumes
    \/ PlayerError \/ PlayingTimedOut
    \/ ConnectionDestroyed

Spec == Init /\ [][Next]_vars

\* ----------------------------------------------------- a session under way
\* The state after "/play B", "/play C" once B plays: Track 1 is the player's
\* resource and Track 2 is queued.  The command budgets start afresh.
Playing ==
    /\ internal = << TrackItem(2) >>
    /\ holder = NoOp
    /\ waiters = <<>>
    /\ queueProcessLock = FALSE
    /\ wait = FALSE
    /\ destroyed = FALSE
    /\ status = "Playing"
    /\ resource = 1
    /\ tracks = [t \in TrackIds |->
                    IF t = 1
                    THEN [NewTrack EXCEPT !.started = TRUE, !.promise = "resolved",
                                          !.process = "running", !.probe = "done"]
                    ELSE NewTrack]
    /\ vcStatus = "Ready"
    /\ subscriptions = 1
    /\ created = 1
    /\ rejoinAttempts = 0
    /\ readyLock = FALSE
    /\ timers = NoTimers
    /\ nextTrack = 3
    /\ hist = [NewHist EXCEPT !.nStart[1] = 1, !.nPlaying[1] = 1,
                              !.nDequeue[1] = 1, !.nAcquire[1] = 1,
                              !.nPlay[1] = 1, !.nAbort = 1]

InitPlaying ==
    /\ Playing
    /\ cmds = 0
    /\ plays = 0

\* The voice connection's recovery policies, with /stop and /remove.
NextConn ==
    \/ ConnectionSignalled \/ ConnectionReady \/ ConnectionDrops
    \/ ConnectionReturns
    \/ ConnectingTimedOut \/ RejoinWaitOver \/ ReadyTimedOut \/ PlayingTimedOut
    \/ StopCommand \/ StopLocked
    \/ Remove \/ RemoveLocked
    \/ ProcessQueueLocked

SpecConn == InitPlaying /\ [][NextConn]_vars

\* Timers run out, and a continuation whose lock was granted runs.
FairConn ==
    /\ SpecConn
    /\ WF_vars(ConnectingTimedOut) /\ WF_vars(RejoinWaitOver) /\ WF_vars(ReadyTimedOut)
    /\ WF_vars(StopLocked) /\ WF_vars(RemoveLocked) /\ WF_vars(ProcessQueueLocked)

\* Faulty variant of Quiescent: events are taken while a lock grant is pending.
AnyTime == TRUE

\* Node runs the continuations of awaited promises (microtasks) before it takes
\* the next event: a lock that was granted is used and released before any
\* command, timer or connection event is handled.
Quiescent == holder.k \in {"none", "ended"}

\* The registry: getOrCreateSubscription, stop() and the connection's events, in
\* the order Node can run them.
NextReg ==
    \/ (Quiescent /\ GetOrCreateSubscription)
    \/ (Quiescent /\ StopCommand)
    \/ (Quiescent /\ Remove)
    \/ (Quiescent /\ ConnectionDrops)
    \/ (Quiescent /\ ConnectionReturns)
    \/ (Quiescent /\ ConnectionSignalled)
    \/ (Quiescent /\ ConnectionReady)
    \/ (Quiescent /\ ConnectionDestroyed)
    \/ (Quiescent /\ ConnectingTimedOut)
    \/ (Quiescent /\ RejoinWaitOver)
    \/ (Quiescent /\ ReadyTimedOut)
    \/ (Quiescent /\ PlayingTimedOut)
    \/ StopLocked \/ RemoveLocked \/ ProcessQueueLocked

SpecReg == InitPlaying /\ [][NextReg]_vars

\* The state after getOrCreateSubscription has created the guild's first
\* Subscription: joinVoiceChannel returned a new connection, which starts in
\* Signalling, and the constructor attached the 'stateChange' listener to it
\* afterwards, so the listener has seen no transition and no wait is armed.
Created ==
    /\ internal = <<>>
    /\ holder = NoOp
    /\ waiters = <<>>
    /\ queueProcessLock = FALSE
    /\ wait = FALSE
    /\ destroyed = FALSE
    /\ status = "Idle"
    /\ resource = NoTrack
    /\ tracks = [t \in TrackIds |-> NewTrack]
    /\ vcStatus = "Signalling"
    /\ subscriptions = 1
    /\ created = 1
    /\ rejoinAttempts = 0
    /\ readyLock = FALSE
    /\ timers = NoTimers
    /\ nextTrack = 1
    /\ hist = NewHist

InitCreated ==
    /\ Created
    /\ cmds = 0
    /\ plays = 0

\* The new connection's transitions, the listener's waits and /stop.
NextCreated ==
    \/ ConnectionSignalled \/ ConnectionReady \/ ConnectionDrops
    \/ ConnectionReturns
    \/ ConnectingTimedOut \/ RejoinWaitOver \/ ReadyTimedOut
    \/ StopCommand \/ StopLocked

SpecCreated == InitCreated /\ [][NextCreated]_vars

\* Timers run out, and stop() runs once its lock is granted; what the gateway
\* and the voice server send is not in the program's hands.
FairCreated ==
    /\ SpecCreated
    /\ WF_vars(ConnectingTimedOut) /\ WF_vars(RejoinWaitOver) /\ WF_vars(ReadyTimedOut)
    /\ WF_vars(StopLocked)

\* Nothing is left to run before Node takes the next event: no lock is granted
\* and no settled Promise of createAudioResource is awaited by processQueue.
Drained ==
    /\ Quiescent
    /\ \A t \in TrackIds :
          ~(tracks[t].awaiting > 0 /\ tracks[t].promise \in {"resolved", "rejected"})

\* Playback and the recovery from failed downloads, in the order Node can run
\* them: events one at a time, each followed by the continuations it enables.
NextRetry ==
    \/ (Drained /\ Play)
    \/ (Drained /\ ProcessFails)
    \/ (Drained /\ SendResolves)
    \/ (Drained /\ ProbeResolves)
    \/ (Drained /\ ProbeRejects)
    \/ (Drained /\ PlayerReadable)
    \/ (Drained /\ PlayerEnds)
    \/ PlayLocked \/ ProcessQueueLocked \/ SpawnErrorHandlerLocked
    \/ ProcessQueueThen \/ ProcessQueueCatch

SpecRetry == InitPlaying /\ [][NextRetry]_vars

\* The same, with deliveries to the text channel that fail.
NextSend ==
    \/ NextRetry
    \/ (Drained /\ SendRejects)

SpecSend == InitPlaying /\ [][NextSend]_vars

\* Playback and the recovery from failed downloads, with /stop.
NextStop ==
    \/ NextRetry
    \/ (Drained /\ StopCommand)
    \/ StopLocked

SpecStop == InitPlaying /\ [][NextStop]_vars

\* Playback with /play and /replace.
NextReplace ==
    \/ Play \/ PlayLocked \/ Replace \/ ReplaceLocked
    \/ ProcessQueueLocked \/ ProcessQueueThen \/ ProbeResolves
    \/ PlayerReadable \/ PlayerEnds

SpecReplace == InitPlaying /\ [][NextReplace]_vars

\* A new Subscription whose connection becomes Ready, the /play <song> commands
\* that follow (no /next, no /now), the resolution and playback of their Tracks,
\* and the 30 s wait.
NextIdle ==
    \/ ConnectionSignalled \/ ConnectionReady \/ ReadyTimedOut
    \/ (vcStatus = "Ready" /\ Drained /\ Play /\ holder'.k = "play")
    \/ (Drained /\ ProbeResolves)
    \/ (Drained /\ ProbeRejects)
    \/ (Drained /\ PlayerReadable)
    \/ (Drained /\ PlayerEnds)
    \/ (Drained /\ PlayingTimedOut)
    \/ PlayLocked \/ ProcessQueueLocked \/ ProcessQueueThen \/ ProcessQueueCatch
    \/ StopLocked

\* Whatever can happen does: commands arrive while the bounds allow, Promises
\* settle, streams end, timers run out and continuations run.
FairIdle == InitCreated /\ [][NextIdle]_vars /\ WF_vars(NextIdle)

\* The registry while the process runs, and its shutdown.
NextExit ==
    \/ (~hist.exited /\ NextReg)
    \/ Sigterm

SpecExit == InitPlaying /\ [][NextExit]_vars

\* ------------------------------------------------------- the Queue alone
\* A Queue method is called on the queue as it is (under the lock, by whoever
\* holds it), with a Track that is not in the queue or with valid indices.
Called(op, args, result, after, ins, rem) ==
    Become([S EXCEPT !.internal = after,
                     !.hist.call = [op |-> op, before |-> internal,
                                    args |-> args, result |-> result],
                     !.hist.inserted = @ \cup ins,
                     !.hist.removed = @ \cup rem])

CallEnqueue ==
    \E t \in TrackIds \ hist.inserted :
        Called("enqueue", << t >>, <<>>, enqueue(internal, << TrackItem(t) >>), {t}, {})

CallEnqueueFirst ==
    \E t \in TrackIds \ hist.inserted :
        Called("enqueueFirst", << t >>, <<>>, enqueueFirst(internal, TrackItem(t)), {t}, {})

CallDequeue ==
    /\ internal # <<>>
    /\ Called("dequeue", <<>>, << get(internal, 0) >>, dequeue(internal),
              {}, {get(internal, 0).trk})

CallRemove ==
    \E index \in 0 .. (Len(internal) - 1) :
        Called("remove", << index >>, << get(internal, index) >>,
               remove(internal, index), {}, {get(internal, index).trk})

CallSwap ==
    \E index1, index2 \in 0 .. (Len(internal) - 1) :
        Called("swap", << index1, index2 >>, <<>>, swap(internal, index1, index2), {}, {})

CallJump ==
    \E index \in 0 .. Len(internal) :
        Called("jump", << index >>, <<>>, jump(internal, index),
               {}, { internal[i].trk : i \in 1 .. index })

CallShuffle ==
    \E rs \in ShuffleDraws(Len(internal)) :
        Called("shuffle", <<>>, <<>>, shuffle(internal, rs), {}, {})

NextQueue ==
    \/ CallEnqueue \/ CallEnqueueFirst \/ CallDequeue
    \/ CallRemove \/ CallSwap \/ CallJump \/ CallShuffle

SpecQueue == Init /\ [][NextQueue]_vars

\* Playback of Spotify playlists.
NextSpotify ==
    \/ PlayPlaylist \/ PlayPlaylistLocked \/ SearchReturns
    \/ ProcessQueueLocked \/ ProcessQueueThen \/ ProcessQueueCatch
    \/ ProbeResolves \/ ProbeRejects
    \/ PlayerReadable \/ PlayerEnds

SpecSpotify == Init /\ [][NextSpotify]_vars

\* The player's states under /play, /pause, /skip and nowPlaying().
NextPlayer ==
    \/ Play \/ PlayLocked
    \/ ProcessQueueLocked \/ ProcessQueueThen \/ ProbeResolves
    \/ PlayerReadable \/ PlayerEnds
    \/ Pause \/ PlayUnpause \/ Skip
    \/ CallNowPlaying

SpecPlayer == InitPlaying /\ [][NextPlayer]_vars

\* Playback with /play, /next, /now and /skip.
NextPlay ==
    \/ Play \/ PlayLocked \/ Skip
    \/ ProcessQueueLocked \/ ProcessQueueThen \/ ProcessQueueCatch
    \/ ProbeResolves \/ ProbeRejects
    \/ PlayerReadable \/ PlayerEnds \/ PlayingTimedOut

SpecPlay == InitPlaying /\ [][NextPlay]_vars

\* ================================================================ claims
InFlight == { t \in TrackIds : tracks[t].awaiting > 0 }

\* C1: however many processQueue() invocations run concurrently, a Track held
\* by the queue is dequeued at most once, each dequeue starts exactly one
\* acquisition (createAudioResource) followed by at most one audioPlayer.play,
\* and at most one invocation is between its dequeue and its completion.
C1_DequeuedOnce ==
    /\ \A t \in TrackIds :
          /\ hist.nDequeue[t] <= 1
          /\ hist.nAcquire[t] = hist.nDequeue[t]
          /\ hist.nPlay[t] <= hist.nAcquire[t]
          /\ tracks[t].awaiting <= 1
    /\ Cardinality(InFlight) <= 1

\* One invocation has dequeued the only Track and awaits its resource while a
\* second invocation, started concurrently, has been granted the lock.
C1_Witness ==
    \E t \in TrackIds :
        /\ tracks[t].awaiting = 1
        /\ hist.nDequeue[t] = 1
        /\ internal = <<>>
        /\ holder = PQ

\* C2: the bodies of onStart, onFinish and onError run at most once per Track,
\* however often the player's events invoke them while that Track plays.
C2_HandlersOnce ==
    \A t \in TrackIds :
        /\ hist.nStart[t] <= 1
        /\ hist.nFinish[t] <= 1
        /\ hist.nError[t] <= 1

\* The player entered Playing twice with the same Track (it resumed from
\* AutoPaused), so onStart was invoked twice, and its body ran once.
C2_Witness ==
    \E t \in TrackIds : hist.nPlaying[t] = 2 /\ hist.nStart[t] = 1

\* C3: once processQueue has taken from the queue a Track that was re-enqueued
\* after its k-th download failure (k below MaxReplayAttempts), the Track has
\* been attempted k + 1 times.
C3_Reattempted ==
    \A t \in TrackIds :
        (/\ tracks[t].currentReplayAttempt \in 1 .. (MaxReplayAttempts - 1)
         /\ hist.nDequeueArray[t] >= 1)
        => hist.nAcquire[t] = Bump(tracks[t].currentReplayAttempt)

\* C4: when processQueue takes from the queue a Track that /next or /now put
\* at the front, playback of that Track is started, and queue processing goes on.
C4_FrontPlaysNext ==
    \A t \in TrackIds :
        (tracks[t].currentReplayAttempt = 0 /\ hist.nDequeueArray[t] >= 1)
        => (hist.nAcquire[t] >= 1 /\ ~hist.uncaught)

\* C5: no operation ends while it holds the queue-access lock.
C5_LockReleased == holder.k # "ended"

\* C6: every assignment of the queue's array is made by the operation that holds
\* the queue-access lock, and the lock is never free while an operation waits.
C6_MutationsLocked ==
    /\ ~hist.unlocked
    /\ (waiters # <<>> => holder # NoOp)

\* A command holds the lock over a non-empty queue, which an earlier operation
\* filled under the lock, while another operation waits for it.
C6_Witness ==
    /\ holder.k \in {"shuffle", "clear", "swap", "replace", "jump", "remove", "stop"}
    /\ internal # <<>>
    /\ waiters # <<>>
    /\ hist.nDequeue[1] = 1

\* C7: while the in-flight flag is set, the processQueue invocation that set it
\* is still running, so that it will clear the flag.
C7_FlagHasOwner == queueProcessLock => InFlight # {}

\* C8: when stop() completes the queue is empty, the player is Idle, the
\* Subscription is marked destroyed, the connection is Destroyed and the guild
\* is absent from the registry; a repeated stop() raises no error and ends in
\* the same state.
C8_StopPost ==
    [][StopLocked =>
          /\ internal' = <<>>
          /\ status' = "Idle"
          /\ destroyed'
          /\ vcStatus' = "Destroyed"
          /\ subscriptions' = 0
          /\ ~hist'.destroyError]_vars

\* stop() has completed twice on the same Subscription.
C8_Witness ==
    /\ hist.stops = 2
    /\ destroyed
    /\ vcStatus = "Destroyed"
    /\ ~hist.destroyError

\* C9: once the voice connection is Destroyed, the Subscription is eventually
\* removed from the registry and its queue emptied.
C9_DestroyedCleansUp ==
    (vcStatus = "Destroyed") ~> (subscriptions = 0 /\ internal = <<>>)

\* C10: once the 5 s wait after a 4014 disconnect has timed out, the connection
\* is destroyed and the Subscription is eventually removed and its queue cleared.
C10_TimedOutCleansUp ==
    hist.timedOut4014 ~> (vcStatus = "Destroyed" /\ subscriptions = 0 /\ internal = <<>>)

Alive == (IF destroyed THEN {} ELSE {1}) \cup (2 .. created)

\* C12: at most one Subscription of the guild has destroyed = false, and it is
\* the registered one; getOrCreateSubscription returns the registered
\* Subscription if there is one, and otherwise a new one that it registered.
C12_OneActive ==
    /\ Cardinality(Alive) <= 1
    /\ \A x \in Alive : subscriptions = x
    /\ hist.got.sub # 0 =>
          IF hist.got.before # 0
          THEN hist.got.sub = hist.got.before
          ELSE hist.got.sub = created /\ hist.got.sub \notin {0, 1}

\* Subscription 1 was stopped and a later call created and registered
\* Subscription 2.
C12_Witness ==
    /\ destroyed
    /\ hist.stops >= 1
    /\ created = 2
    /\ subscriptions = 2
    /\ hist.got.before = 0

\* C16: getOrCreateSubscription returns a Subscription whose voiceConnection is
\* not Destroyed and is the connection that joinVoiceChannel has just returned.
C16_CurrentConnection ==
    hist.got.sub # 0 =>
        /\ hist.got.connStatus # "Destroyed"
        /\ hist.got.conn = hist.got.joined

\* C13: when searchYoutube returned no usable candidate (null or a list without
\* entries) for a Track without youtube_url, the Promise of createAudioResource
\* is rejected, the "will be skipped" message was sent, and the Track is not
\* back in the queue.
C13_NoCandidates ==
    \A t \in TrackIds :
        tracks[t].search \in {"null", "empty"} =>
            /\ tracks[t].promise = "rejected"
            /\ hist.skipNotice[t]
            /\ \A i \in DOMAIN internal : internal[i].trk # t

\* C14: a processQueue invocation that dequeues a Track which failed and was
\* re-inserted at the front for its retry does not end in an uncaught error.
C14_Absorbed ==
    \A t \in TrackIds :
        (hist.failed[t] /\ hist.nDequeueArray[t] >= 1) => ~hist.uncaught

\* The messages about a failure of Track t: "Ran into an error" (onError),
\* "Failed to play" (spawnErrorHandler, sent whenever it counted an attempt) and
\* "Could not find a Youtube URL" (createAudioResource).
Notified(t) ==
    \/ hist.nError[t] >= 1
    \/ tracks[t].currentReplayAttempt >= 1
    \/ hist.skipNotice[t]

\* C15: a Track whose acquisition failed, premature close apart, has had a
\* message about it sent, once the catch block of a processQueue invocation
\* that still awaits the rejected Promise has run.
C15_FailureNotified ==
    \A t \in TrackIds :
        (hist.failed[t] /\ ~(tracks[t].promise = "rejected" /\ tracks[t].awaiting > 0))
        => Notified(t)

\* C17: after any sequence of enqueue, enqueueFirst, dequeue, remove and swap
\* calls the queue's length is the number of Tracks inserted minus the number
\* removed, and its entries are exactly the inserted Tracks not yet removed,
\* each of them once.
C17_Conservation ==
    /\ Len(internal) = Cardinality(hist.inserted) - Cardinality(hist.removed)
    /\ \A t \in hist.inserted \ hist.removed :
          Cardinality({ i \in DOMAIN internal : internal[i] = TrackItem(t) }) = 1
    /\ \A i \in DOMAIN internal :
          internal[i].kind = "track" /\ internal[i].trk \in hist.inserted \ hist.removed

\* C18: right after enqueueFirst(item), get(0) is item, the length has grown by
\* one and every earlier entry is one index further, in the same order.
C18_Prepends ==
    hist.call.op = "enqueueFirst" =>
        /\ get(internal, 0) = TrackItem(hist.call.args[1])
        /\ Len(internal) = Len(hist.call.before) + 1
        /\ \A i \in DOMAIN hist.call.before : internal[i + 1] = hist.call.before[i]

\* C19: swap(i, j) with valid indices exchanges the entries at i and j, leaves
\* every other entry and the length as they were, and a second swap(i, j)
\* restores the queue.
C19_SwapExchanges ==
    hist.call.op = "swap" =>
        LET b == hist.call.before
            i == hist.call.args[1] + 1
            j == hist.call.args[2] + 1
        IN  /\ Len(internal) = Len(b)
            /\ internal[i] = b[j]
            /\ internal[j] = b[i]
            /\ \A k \in DOMAIN b \ {i, j} : internal[k] = b[k]
            /\ swap(internal, i - 1, j - 1) = b

\* [A, B, C] with swap(0, 2) has become [C, B, A].
C19_Witness ==
    /\ hist.call.op = "swap"
    /\ hist.call.args = << 0, 2 >>
    /\ hist.call.before = << TrackItem(1), TrackItem(2), TrackItem(3) >>
    /\ internal = << TrackItem(3), TrackItem(2), TrackItem(1) >>

\* C20: jump(k) with 0 <= k <= length drops the entries at the indices below k
\* and keeps the others in their order, renumbered from 0.
C20_JumpTruncates ==
    hist.call.op = "jump" =>
        LET b == hist.call.before
            k == hist.call.args[1]
        IN  /\ Len(internal) = Len(b) - k
            /\ \A i \in DOMAIN internal : internal[i] = b[i + k]

\* A queue of three entries after jump(2): the last entry alone, at index 0.
C20_Witness ==
    /\ hist.call.op = "jump"
    /\ hist.call.args = << 2 >>
    /\ Len(hist.call.before) = 3
    /\ internal = << hist.call.before[3] >>

\* C21: a /play that appends (here a Spotify playlist) leaves the Tracks already
\* queued where they were, ahead of the new ones and in the same order: the
\* queue before the command is a prefix of the queue after it.
C21_AppendKeepsOrder ==
    [][PlayPlaylistLocked =>
          /\ Len(internal') >= Len(internal)
          /\ SubSeq(internal', 1, Len(internal)) = internal]_vars

\* C22: nowPlaying() returns the Track of the player's resource when there is
\* one, and returns nothing, without throwing, when the player holds none.
C22_NowPlaying ==
    [][CallNowPlaying =>
          hist'.call.result = IF resource = NoTrack THEN <<>>
                              ELSE << TrackItem(resource) >>]_vars

\* C24: /play without a song on a Paused player leaves Paused for Playing.
C24_Unpauses == [][PlayUnpause => status' = "Playing"]_vars

\* C23: once the process has exited on SIGTERM no Subscription is registered,
\* the queue is empty and the voice connection is destroyed.
C23_ShutdownTerminates ==
    hist.exited =>
        /\ subscriptions = 0
        /\ internal = <<>>
        /\ vcStatus = "Destroyed"

\* Track t's retry is under way: its k-th download failed (k below
\* MaxReplayAttempts) and the entry spawnErrorHandler re-inserts is not yet
\* taken from the queue.
Recovering(t) ==
    /\ tracks[t].currentReplayAttempt \in 1 .. (MaxReplayAttempts - 1)
    /\ tracks[t].process = "failed"
    /\ \/ tracks[t].handler \in {"send", "lock"}
       \/ /\ tracks[t].handler = "done"
          /\ \E i \in DOMAIN internal : internal[i] = ArrayOf(TrackItem(t))

\* C25: while the retry of a Track is under way no other Track is taken from
\* the queue.
C25_RetryIsNext ==
    [][\A t \in TrackIds :
          Recovering(t) =>
              \A u \in TrackIds \ {t} : hist'.nDequeue[u] = hist.nDequeue[u]]_vars

\* C26: the body of onFinish does not run for an attempt that fails with exit
\* code 1, neither before spawnErrorHandler handles the failure (the attempt's
\* finished flag, reset by createAudioResource, is still false then) nor after.
C26_NoFinishOnFailure ==
    [][\A t \in TrackIds :
          /\ (tracks'[t].currentReplayAttempt # tracks[t].currentReplayAttempt)
                 => ~tracks[t].finished
          /\ (tracks[t].process = "failed" /\ tracks[t].currentReplayAttempt >= 1)
                 => hist'.nFinish[t] = hist.nFinish[t]]_vars

\* The source the claim gives the attempt after the k-th failure of a Track
\* that has n alternates: the first source for k = 1, else alternate k - 1 when
\* there is one, else the last alternate there is.
ExpectedSource(k, n) == IF k < 2 THEN 0 ELSE Min(k - 1, n)

\* C27: once the entry re-inserted after a Track's k-th failure is taken from
\* the queue, the Track's next attempt is under way with the source unchanged
\* for k = 1 and moved on to the next alternate, when there is one, for k >= 2.
C27_AlternateSource ==
    \A t \in TrackIds :
        (/\ tracks[t].currentReplayAttempt \in 1 .. (MaxReplayAttempts - 1)
         /\ hist.nDequeueArray[t] >= 1)
        => /\ hist.nAcquire[t] = Bump(tracks[t].currentReplayAttempt)
           /\ \E n \in 0 .. 3 :
                 tracks[t].source = ExpectedSource(tracks[t].currentReplayAttempt, n)

\* C28: a failure with ERR_STREAM_PREMATURE_CLOSE re-enqueues nothing, asks for
\* no lock, counts no attempt, leaves wait as it is and sends nothing.
C28_PrematureIsSilent ==
    [][ProcessFailsWith("premature") =>
          /\ internal' = internal
          /\ holder' = holder /\ waiters' = waiters
          /\ wait' = wait
          /\ hist' = hist
          /\ \A t \in TrackIds :
                /\ tracks'[t].currentReplayAttempt = tracks[t].currentReplayAttempt
                /\ tracks'[t].handler \in {tracks[t].handler, "done"}]_vars

\* A playing Track's process failed with a premature close while wait was
\* false and another Track was queued: nothing was counted or asked for.
C28_Witness ==
    \E t \in TrackIds :
        /\ tracks[t].process = "failed"
        /\ tracks[t].handler = "done"
        /\ ~hist.failed[t]
        /\ tracks[t].currentReplayAttempt = 0
        /\ ~wait
        /\ internal # <<>>

\* C29: a voice connection that is in Connecting or Signalling eventually is
\* Ready or Destroyed.
C29_NeverStuckConnecting ==
    (vcStatus \in {"Connecting", "Signalling"}) ~> (vcStatus \in {"Ready", "Destroyed"})

\* C30: at most one wait for Ready is pending, and readyLock is true exactly
\* while one is.
C30_OneReadyDeadline ==
    /\ timers.ready <= 1
    /\ readyLock <=> (timers.ready = 1)

\* After a rejoin() the connection entered Signalling, which armed the wait,
\* and then Connecting while that wait was pending: still one wait.
C30_Witness ==
    /\ vcStatus = "Connecting"
    /\ rejoinAttempts >= 1
    /\ readyLock
    /\ timers.ready = 1

\* C31: rejoins are attempted only while the connection's rejoinAttempts is
\* below MaxRejoinAttempts, so the count never exceeds it.
C31_RejoinsBounded == rejoinAttempts <= MaxRejoinAttempts

\* C32: whether the "Failed to play ... Trying again" message is delivered or
\* not, the handler of a failure that leaves attempts goes on to ask for the
\* lock, to re-insert the Track and call processQueue.
C32_SendFailureHarmless ==
    [][\A t \in TrackIds :
          (/\ tracks[t].handler = "send"
           /\ tracks[t].currentReplayAttempt < MaxReplayAttempts
           /\ tracks'[t].handler # "send")
          => tracks'[t].handler = "lock"]_vars

C34_ShufflePermutes ==
    hist.call.op = "shuffle" =>
        /\ Len(internal) = Len(hist.call.before)
        /\ \A i \in DOMAIN hist.call.before :
               Count(internal, hist.call.before[i]) =
                   Count(hist.call.before, hist.call.before[i])
        /\ \A i \in DOMAIN internal :
               Count(hist.call.before, internal[i]) > 0
        /\ (\A i \in DOMAIN hist.call.before : hist.call.before[i].kind = "track")
               => \A i \in DOMAIN internal : internal[i].kind = "track"

\* shuffle() changed the order of a queue of three Tracks.
C34_Witness ==
    /\ hist.call.op = "shuffle"
    /\ Len(internal) = 3
    /\ internal # hist.call.before
    /\ \A i \in DOMAIN internal : internal[i].kind = "track"

\* C35: once stop() has set destroyed, a processQueue invocation that is
\* granted the lock takes nothing from the queue and does not set
\* queueProcessLock, whatever was put into the queue after the stop.
C35_NothingAfterStop ==
    [][(destroyed /\ ProcessQueueLocked) =>
          /\ internal' = internal
          /\ queueProcessLock' = queueProcessLock]_vars

\* C36: a newer Subscription that has been registered for the guild id stays
\* registered, however often stop() of the first Subscription runs: each of its
\* stop() calls, the re-entrant one from the Destroyed listener included, has
\* deleted the entry before Node takes the event that registers the newer one.
C36_StopRemovesOwnEntry ==
    /\ created > 1 => subscriptions = created
    /\ subscriptions > 1 => holder # STOP /\ \A i \in DOMAIN waiters : waiters[i] # STOP

\* stop() of Subscription 1 ran from /stop and again from the Destroyed
\* listener, and Subscription 2 was registered afterwards.
C36_Witness ==
    /\ hist.stops >= 2
    /\ created = 2
    /\ subscriptions = 2

\* C37: audioPlayer.play is called only while the player is Idle, by the
\* processQueue invocation that set queueProcessLock and dequeued the Track,
\* which is the only one between its dequeue and the hand-off; and a resource
\* that is Buffering, Playing or Paused is replaced by nothing but Idle.
C37_PlayOnlyWhenIdle ==
    [][/\ \A t \in TrackIds :
             hist.nPlay'[t] # hist.nPlay[t] =>
                 /\ status = "Idle"
                 /\ resource = NoTrack
                 /\ queueProcessLock
                 /\ InFlight = {t}
                 /\ hist.nDequeue[t] = 1
                 /\ status' = "Buffering"
                 /\ resource' = t
       /\ status # "Idle" =>
             \/ resource' = resource
             \/ status' = "Idle" /\ resource' = NoTrack]_vars

\* A Track was handed to the player while another Track was waiting in the
\* queue and a further processQueue invocation was waiting for the lock.
C37_Witness ==
    \E t \in TrackIds :
        /\ hist.nPlay[t] = 1
        /\ status = "Buffering"
        /\ resource = t
        /\ internal # <<>>
        /\ \E i \in DOMAIN waiters : waiters[i] = PQ

\* C38: a 30 s wait for Playing that times out sends the inactivity message
\* only if none was sent before and stop() has not run on the Subscription.
C38_NotifiedOnce ==
    [][PlayingTimedOut => ~hist.inactive /\ ~destroyed]_vars

\* C39: a registered Subscription whose player is Idle and whose queue is
\* empty eventually plays a Track or is removed from the registry.
C39_IdleEndsEventually ==
    (subscriptions = 1 /\ status = "Idle" /\ internal = <<>>)
        ~> (status = "Playing" \/ subscriptions = 0)

\* C40: no path calls destroy() or rejoin() on a voice connection that is
\* Destroyed: the waits of the listener that end find the connection not
\* Destroyed when their branch calls one of the two, and destroy() never throws.
C40_NoCallOnDestroyed ==
    [][/\ ConnectingTimedOut => vcStatus # "Destroyed"
       /\ RejoinWaitOver => vcStatus # "Destroyed"
       /\ ~hist'.destroyError]_vars

StopUnderWay == hist.stops > 0 \/ holder = STOP \/ (\E i \in DOMAIN waiters : waiters[i] = STOP)

\* C11: when the 30 s wait for Playing that the player's Idle transition armed
\* times out, the inactivity message is sent and the voice connection is
\* Destroyed, with stop() run or under way; a step that brings the player to
\* Playing leaves no such wait pending, sends no such message and destroys
\* nothing.
C11_IdleTimeout ==
    [][/\ PlayingTimedOut =>
             /\ hist'.inactive
             /\ vcStatus' = "Destroyed"
             /\ StopUnderWay'
       /\ (status' = "Playing" /\ status # "Playing") =>
             /\ timers'.playing = 0
             /\ hist'.inactive = hist.inactive
             /\ vcStatus' = vcStatus]_vars

\* A Track finished, the queue was empty, the wait timed out: the message was
\* sent, the connection destroyed and the Subscription stopped.
C11_Witness ==
    /\ hist.inactive
    /\ \E t \in TrackIds : hist.nFinish[t] = 1
    /\ internal = <<>>
    /\ vcStatus = "Destroyed"
    /\ hist.stops = 1
====
